---- MODULE Spec2Model ----
(***************************************************************************)
(* Contextual-bandit agents of cs_comps_project.                           *)
(*   LinUCBAgent.py : LinUCBAgent and its nested MatrixBias statistics     *)
(*   MacroAgent.py  : MacroAgent, the cluster reduction over a GOBLinAgent *)
(*   load.py        : load_agent, the agent factory                        *)
(* Reals are kept exact as integer numerators over a common denominator    *)
(* (the inverse of M is adjugate / determinant); sqrt and log, the only    *)
(* irrational steps, are evaluated in fixed point with Scale digits.       *)
(***************************************************************************)
EXTENDS Integers, Sequences, FiniteSets, TLC

(* ---------------------------- bounds ---------------------------------- *)
NumUsers == 2
MaxUpdates == 2
MaxCands == 2
MaxTime == 2
NumNodes == 3
MaxClusters == 2

(* ------------------------- program parameters -------------------------- *)
\* num_features of the modelled agent (self.d)
d == 3
\* fixed-point scale of sqrt / log results: 1000 = three decimals
Scale == 10 * 10 * 10

Users == 0 .. (NumUsers - 1)
Payoffs == {0, 1}
Timesteps == 1 .. MaxTime
\* the exploration coefficient: the default alpha=0.1 of __init__, as <<num, den>>
Alphas == {<<1, 10>>}

\* a context is a tuple (identifier, vector); context[1] of the source is c[2]
X1 == <<"x1", <<1, 0, 0>>>>
X2 == <<"x2", <<0, 1, 0>>>>
X3 == <<"x3", <<1, -1, 0>>>>
ContextPool == {X1, X2, X3}

RECURSIVE SeqsUpTo(_, _)
SeqsUpTo(S, n) ==
    IF n = 0 THEN {<<>>}
    ELSE LET shorter == SeqsUpTo(S, n - 1)
         IN  shorter \cup {Append(s, x) : s \in {t \in shorter : Len(t) = n - 1}, x \in S}

\* the candidate lists a data manager hands to choose: never empty
CandidateLists == {cs \in SeqsUpTo(ContextPool, MaxCands) : Len(cs) > 0}

(* --------------------------- numpy helpers ----------------------------- *)
RECURSIVE SumTo(_, _)
\* sum of f[1] .. f[n]
SumTo(f, n) == IF n = 0 THEN 0 ELSE f[n] + SumTo(f, n - 1)

\* np.identity(n)
np_identity(n) == [i \in 1..n |-> [j \in 1..n |-> IF i = j THEN 1 ELSE 0]]

\* np.zeros(n)
np_zeros(n) == [i \in 1..n |-> 0]

\* np.transpose of a 1-D array returns the array unchanged
np_transpose_1d(v) == v

\* np.dot of two 1-D arrays is their inner product, a scalar
np_dot_1d_1d(u, v) == SumTo([i \in 1..Len(u) |-> u[i] * v[i]], Len(u))

\* np.dot of a 1-D array and a scalar scales the array
np_dot_1d_scalar(v, s) == [i \in 1..Len(v) |-> v[i] * s]

\* np.dot of a 2-D array and a 1-D array
np_dot_2d_1d(A, v) == [i \in 1..Len(A) |-> np_dot_1d_1d(A[i], v)]

\* M += s with s a scalar: numpy broadcasts s over every entry of M
np_iadd_2d_scalar(A, s) == [i \in 1..Len(A) |-> [j \in 1..Len(A[i]) |-> A[i][j] + s]]

\* b += v, elementwise
np_iadd_1d(u, v) == [i \in 1..Len(u) |-> u[i] + v[i]]

\* the sequence s without its k-th element
Without(s, k) == [i \in 1..(Len(s) - 1) |-> IF i < k THEN s[i] ELSE s[i + 1]]

RECURSIVE DetSub(_, _, _)
\* determinant of the submatrix of A on rows and cols (Laplace, first row)
DetSub(A, rows, cols) ==
    IF Len(rows) = 0 THEN 1
    ELSE SumTo([k \in 1..Len(cols) |->
                  (IF k % 2 = 1 THEN 1 ELSE -1) * A[rows[1]][cols[k]]
                  * DetSub(A, Tail(rows), Without(cols, k))],
               Len(cols))

Indices(n) == [i \in 1..n |-> i]

Det(A) == DetSub(A, Indices(Len(A)), Indices(Len(A)))

\* adjugate: Adj[i][j] = (-1)^(i+j) * minor(j, i), so that inv(A) = Adj / Det
Adjugate(A) ==
    LET n == Len(A)
    IN  [i \in 1..n |-> [j \in 1..n |->
            (IF (i + j) % 2 = 0 THEN 1 ELSE -1)
            * DetSub(A, Without(Indices(n), j), Without(Indices(n), i))]]

\* np.linalg.inv(A) as the pair numerators / positive denominator;
\* a singular A raises LinAlgError
np_linalg_inv(A) ==
    LET dt == Det(A)
        adj == Adjugate(A)
        n == Len(A)
    IN  IF dt = 0 THEN [ok |-> FALSE, num |-> adj, den |-> 1]
        ELSE IF dt > 0 THEN [ok |-> TRUE, num |-> adj, den |-> dt]
        ELSE [ok |-> TRUE,
              num |-> [i \in 1..n |-> [j \in 1..n |-> 0 - adj[i][j]]],
              den |-> 0 - dt]

RECURSIVE ISqrtIter(_, _)
\* Newton's iteration downwards from a start x >= sqrt(n)
ISqrtIter(n, x) ==
    LET y == (x + (n \div x)) \div 2
    IN  IF y >= x THEN x ELSE ISqrtIter(n, y)

\* floor of the square root of n >= 0; n \div Scale + Scale >= sqrt(n) for every n
ISqrt(n) == IF n = 0 THEN 0 ELSE ISqrtIter(n, (n \div Scale) + Scale)

\* math.log(n) * Scale for the arguments timestep + 1 the model reaches
LogScaled(n) ==
    CASE n = 1 -> 0
      [] n = 2 -> 693
      [] n = 3 -> 1099
      [] n = 4 -> 1386
      [] n = 5 -> 1609
      [] n = 6 -> 1792
      [] OTHER -> 1946

(* ------------------------ LinUCBAgent.MatrixBias ----------------------- *)
\* MatrixBias.__init__
MatrixBias_init(num_features) ==
    [M |-> np_identity(num_features), b |-> np_zeros(num_features)]

MatrixBias_update_subtracts_b(mb, payoff, context) ==
    [M |-> np_iadd_2d_scalar(mb.M, np_dot_1d_1d(context[2], np_transpose_1d(context[2]))),
     b |-> np_iadd_1d(mb.b, np_dot_1d_scalar(context[2], 0 - payoff))]

MatrixBias_update_subtracts_M(mb, payoff, context) ==
    [M |-> np_iadd_2d_scalar(mb.M, 0 - np_dot_1d_1d(context[2], np_transpose_1d(context[2]))),
     b |-> np_iadd_1d(mb.b, np_dot_1d_scalar(context[2], payoff))]

\* MatrixBias.update
MatrixBias_update(mb, payoff, context) ==
    [M |-> np_iadd_2d_scalar(mb.M, np_dot_1d_1d(context[2], np_transpose_1d(context[2]))),
     b |-> np_iadd_1d(mb.b, np_dot_1d_scalar(context[2], payoff))]

(* ------------------------------- state -------------------------------- *)
VARIABLES
    agent,             \* what load_agent returned: "none" or the algorithm name
    is_sin,            \* LinUCBAgent: self.is_sin
    alpha,             \* self.alpha as <<numerator, denominator>>
    user_information,  \* LinUCBAgent: self.user_information, user id -> MatrixBias
    idx_to_cluster,    \* MacroAgent: self.idx_to_cluster
    cluster_to_idx,    \* MacroAgent: self.cluster_to_idx
    goblin_agent,      \* MacroAgent: self.goblin_agent
    returned,          \* what the last choose returned
    raised,            \* the exception the last call raised, "none" if it returned
    call,              \* the last call made by the simulation loop
    referenced,        \* history: the user ids callers have passed to choose / update
    fed,               \* history: per key, the updates fed to its MatrixBias
    numUpdates         \* history: number of update calls so far

vars == <<agent, is_sin, alpha, user_information, idx_to_cluster, cluster_to_idx,
          goblin_agent, returned, raised, call, referenced, fed, numUpdates>>

\* Python's None where cluster data is expected
NoClusterData == [none |-> TRUE, cluster_to_idx |-> << >>, idx_to_cluster |-> << >>]

NoContext == <<"none", np_zeros(d)>>

\* the internal agent's record of the last call it received
NothingReceived == [op |-> "none", id |-> 0, contexts |-> <<>>, timestep |-> 0,
                    payoff |-> 0, context |-> NoContext, result |-> NoContext]

\* self.goblin_agent before MacroAgent.__init__ has assigned it
NoGoblin == [built |-> FALSE, graph |-> <<>>, num_users |-> 0, vector_size |-> 0,
             alpha |-> <<0, 1>>, updates |-> << >>, received |-> NothingReceived]

NoCall == [op |-> "none", user_id |-> 0, contexts |-> <<>>, timestep |-> 0,
           payoff |-> 0, context |-> NoContext,
           algorithm_name |-> "", graph |-> <<>>, cluster_data |-> NoClusterData]

ChooseCall(user_id, contexts, timestep) ==
    [NoCall EXCEPT !.op = "choose", !.user_id = user_id, !.contexts = contexts,
                   !.timestep = timestep]

UpdateCall(payoff, context, user_id) ==
    [NoCall EXCEPT !.op = "update", !.user_id = user_id, !.payoff = payoff,
                   !.context = context]

LoadCall(algorithm_name, graph, cluster_data) ==
    [NoCall EXCEPT !.op = "load_agent", !.algorithm_name = algorithm_name,
                   !.graph = graph, !.cluster_data = cluster_data]

(* ----------------------------- LinUCBAgent ----------------------------- *)
\* defaultdict.__getitem__: a missing key is inserted with the default factory's value
defaultdict_get(info, key) ==
    IF key \in DOMAIN info THEN info
    ELSE [k \in DOMAIN info \cup {key} |->
            IF k = key THEN MatrixBias_init(d) ELSE info[k]]

\* the outer product x y^T as a matrix
Outer(x, y) == [i \in 1..Len(x) |-> [j \in 1..Len(y) |-> x[i] * y[j]]]

MatAdd(A, B) == [i \in 1..Len(A) |-> [j \in 1..Len(A[i]) |-> A[i][j] + B[i][j]]]

\* history of one MatrixBias: the number k of updates fed to it, the sum of the
\* outer products x_i x_i^T and the sum of payoff_i * x_i
NothingFed == [k |-> 0, outer |-> [i \in 1..d |-> np_zeros(d)], px |-> np_zeros(d)]

fed_get(f, key) ==
    IF key \in DOMAIN f THEN f
    ELSE [k \in DOMAIN f \cup {key} |-> IF k = key THEN NothingFed ELSE f[k]]

fed_add(h, payoff, x) ==
    [k |-> h.k + 1,
     outer |-> MatAdd(h.outer, Outer(x, x)),
     px |-> [i \in 1..d |-> h.px[i] + payoff * x[i]]]

choose_user_id_ignores_sin(sin, user_id) == user_id

\* choose, lines 39-40: with is_sin every user is treated as user 0
choose_user_id(sin, user_id) == IF sin THEN 0 ELSE user_id

update_user_id_always_0(sin, user_id) == 0

\* update, lines 71-72: with is_sin only user 0 is updated
update_user_id(sin, user_id) == IF sin THEN 0 ELSE user_id

NegInf == [kind |-> "neginf", v |-> 0]
NaN == [kind |-> "nan", v |-> 0]
Num(x) == [kind |-> "num", v |-> x]

\* Python's cur_score > score on floats: false whenever cur_score is NaN
float_gt(a, c) ==
    /\ a.kind = "num"
    /\ \/ c.kind = "neginf"
       \/ c.kind = "num" /\ a.v > c.v

\* lines 54-58: the score of one candidate, times Scale.
\* Minv = inv.num / inv.den, w = wnum / inv.den
cur_score(inv, wnum, a, cur_con, timestep) ==
    LET cur_con_T == np_transpose_1d(cur_con)
        qnum == np_dot_1d_1d(cur_con_T, np_dot_2d_1d(inv.num, cur_con))
        lg == LogScaled(timestep + 1)
        ucb == (a[1] * ISqrt((qnum * lg * Scale) \div inv.den)) \div a[2]
        mean == (Scale * np_dot_1d_1d(np_transpose_1d(wnum), cur_con)) \div inv.den
    IN  IF qnum * lg < 0 THEN NaN ELSE Num(mean + ucb)

\* lines 47-58: w = Minv . b, then the scores of all candidates in input order
scores_of(Minv, b, a, contexts, timestep) ==
    LET w == np_dot_2d_1d(Minv.num, b)
    IN  [i \in 1..Len(contexts) |-> cur_score(Minv, w, a, contexts[i][2], timestep)]

RECURSIVE choose_loop(_, _, _, _)
\* lines 50-62: best_idx after the loop has run from index i (0-based) on
choose_loop(scores, i, best_idx, score) ==
    IF i >= Len(scores) THEN best_idx
    ELSE IF float_gt(scores[i + 1], score)
         THEN choose_loop(scores, i + 1, i, scores[i + 1])
         ELSE choose_loop(scores, i + 1, best_idx, score)

\* Python list indexing: a negative index counts from the end, an index out of
\* range raises IndexError
py_index(list, idx) ==
    IF idx >= Len(list) \/ idx < 0 - Len(list) THEN [ok |-> FALSE, value |-> NoContext]
    ELSE IF idx < 0 THEN [ok |-> TRUE, value |-> list[Len(list) + idx + 1]]
    ELSE [ok |-> TRUE, value |-> list[idx + 1]]

choose_return_one_past(contexts, best_idx) == py_index(contexts, best_idx + 1)

\* line 64: return contexts[best_idx]
choose_return(contexts, best_idx) == py_index(contexts, best_idx)

\* the agent load_agent returns for "linucb" (load.py line 250) and "linucbsin"
\* (line 252), built by LinUCBAgent.__init__
InitLin ==
    /\ agent \in {"linucb", "linucbsin"}
    /\ is_sin = (agent = "linucbsin")
    /\ alpha \in Alphas
    /\ user_information = << >>
    /\ idx_to_cluster = << >>
    /\ cluster_to_idx = << >>
    /\ goblin_agent = NoGoblin
    /\ returned = NoContext
    /\ raised = "none"
    /\ call = NoCall
    /\ referenced = {}
    /\ fed = << >>
    /\ numUpdates = 0

\* LinUCBAgent.choose from line 47 on, given uid (lines 39-40), the dictionary
\* after line 41 and Minv = np.linalg.inv(M) (line 46)
choose_body(user_id, contexts, timestep, uid, info, Minv) ==
    LET matrix_and_bias == info[uid]
        best_idx == choose_loop(scores_of(Minv, matrix_and_bias.b, alpha, contexts, timestep),
                                0, -1, NegInf)
        result == choose_return(contexts, best_idx)
    IN  /\ user_information' = info
        /\ IF ~Minv.ok
           THEN /\ returned' = returned
                /\ raised' = "LinAlgError"
           ELSE IF ~result.ok
           THEN /\ returned' = returned
                /\ raised' = "IndexError"
           ELSE /\ returned' = result.value
                /\ raised' = "none"
        /\ call' = ChooseCall(user_id, contexts, timestep)
        /\ referenced' = referenced \cup {user_id}
        /\ fed' = fed_get(fed, uid)
        /\ UNCHANGED <<agent, is_sin, alpha, numUpdates, idx_to_cluster, cluster_to_idx,
                       goblin_agent>>

\* LinUCBAgent.choose. Minv depends on the user's statistics only, so one
\* evaluation of it is shared by the calls that differ in the candidates and
\* the timestep
Choose ==
    /\ agent \in {"linucb", "linucbsin"}
    /\ \E user_id \in Users :
        LET uid == choose_user_id(is_sin, user_id)
            info == defaultdict_get(user_information, uid)
        IN  \E Minv \in {np_linalg_inv(info[uid].M)} :
                \E contexts \in CandidateLists, timestep \in Timesteps :
                    choose_body(user_id, contexts, timestep, uid, info, Minv)

\* LinUCBAgent.update
update(payoff, context, user_id) ==
    LET uid == update_user_id(is_sin, user_id)
        info == defaultdict_get(user_information, uid)
        matrix_and_bias == info[uid]
    IN  /\ numUpdates < MaxUpdates
        /\ user_information' =
              [info EXCEPT ![uid] = MatrixBias_update(matrix_and_bias, payoff, context)]
        /\ raised' = "none"
        /\ call' = UpdateCall(payoff, context, user_id)
        /\ referenced' = referenced \cup {user_id}
        /\ fed' = [fed_get(fed, uid) EXCEPT ![uid] = fed_add(@, payoff, context[2])]
        /\ numUpdates' = numUpdates + 1
        /\ UNCHANGED <<agent, is_sin, alpha, returned, idx_to_cluster, cluster_to_idx,
                       goblin_agent>>

Update ==
    /\ agent \in {"linucb", "linucbsin"}
    /\ \E payoff \in Payoffs, context \in ContextPool, user_id \in Users :
          update(payoff, context, user_id)

Next == Choose \/ Update

Spec == InitLin /\ [][Next]_vars

(* --------------------- properties of the LinUCB agent ------------------ *)
Elements(seq) == {seq[i] : i \in 1..Len(seq)}

\* the scores choose(user_id, contexts, timestep) computes in the current state
StateScores(user_id, contexts, timestep) ==
    LET uid == choose_user_id(is_sin, user_id)
        info == defaultdict_get(user_information, uid)
    IN  scores_of(np_linalg_inv(info[uid].M), info[uid].b, alpha, contexts, timestep)

\* the positions whose score is the maximum
TiedForMax(scores) ==
    {i \in 1..Len(scores) :
        /\ scores[i].kind = "num"
        /\ \A j \in 1..Len(scores) : ~float_gt(scores[j], scores[i])}

\* C1: after k >= 0 updates of a MatrixBias, M is the identity plus the sum of
\* the k outer products x_i x_i^T and b is the sum of payoff_i * x_i.
C1_UpdateAccumulatesOuterProducts ==
    \A u \in DOMAIN user_information :
        /\ user_information[u].M = MatAdd(np_identity(d), fed[u].outer)
        /\ user_information[u].b = fed[u].px

\* C2: when two or more candidates are tied for the maximum score, every tied
\* candidate is a possible return value of choose (the tie is broken at
\* random, not by "first wins").
C2_TieBrokenAtRandom ==
    \A user_id \in Users :
        LET uid == choose_user_id(is_sin, user_id)
            info == defaultdict_get(user_information, uid)
        IN  \A Minv \in {np_linalg_inv(info[uid].M)} :
            \A contexts \in CandidateLists, timestep \in Timesteps :
            \A tied \in {TiedForMax(scores_of(Minv, info[uid].b, alpha, contexts, timestep))} :
                Cardinality(tied) >= 2 =>
                    \A i \in tied :
                        ENABLED (/\ choose_body(user_id, contexts, timestep, uid, info, Minv)
                                 /\ returned' = contexts[i])

\* C3: choose returns an element of the candidate sequence it was given, and
\* the only candidate of a one-element sequence, whatever the statistics.
C3_ChooseReturnsACandidate ==
    call.op = "choose" =>
        /\ raised = "none"
        /\ returned \in Elements(call.contexts)
        /\ Len(call.contexts) = 1 => returned = call.contexts[1]

\* a choose between two different candidates, after updates, that returned the
\* second one; and the state has seen every update the bound allows
C3_Witness ==
    /\ call.op = "choose"
    /\ Len(call.contexts) = 2
    /\ call.contexts[1] # call.contexts[2]
    /\ returned = call.contexts[2]
    /\ numUpdates >= 2

\* the agent of the end-to-end scenario: d = 3, alpha = 0.1, one entity 0
ScenarioAgent ==
    /\ agent = "linucb"
    /\ alpha = <<1, 10>>
    /\ referenced = {0}

\* C4: on a fresh agent the first choose(0, [x1, x2], 1) sees two equal
\* scores; after update(payoff=1, x1, 0), choose(0, [x1, x2], 2) scores x1
\* strictly above x2 and returns x1.
C4_EndToEnd ==
    /\ ( /\ ScenarioAgent
         /\ numUpdates = 0
         /\ call = ChooseCall(0, <<X1, X2>>, 1) )
       => LET sc == StateScores(0, <<X1, X2>>, 1)
          IN  sc[1].kind = "num" /\ sc[1] = sc[2]
    /\ ( /\ ScenarioAgent
         /\ numUpdates = 1
         /\ user_information = (0 :> MatrixBias_update(MatrixBias_init(d), 1, X1))
         /\ call = ChooseCall(0, <<X1, X2>>, 2) )
       => LET sc == StateScores(0, <<X1, X2>>, 2)
          IN  float_gt(sc[1], sc[2]) /\ returned = X1 /\ raised = "none"

\* the last state of the scenario
C4_Witness ==
    /\ ScenarioAgent
    /\ numUpdates = 1
    /\ user_information = (0 :> MatrixBias_update(MatrixBias_init(d), 1, X1))
    /\ fed[0].px = X1[2]
    /\ call = ChooseCall(0, <<X1, X2>>, 2)
    /\ returned = X1

\* C8: with the sin flag the agent holds at most one MatrixBias, keyed by the
\* sentinel id 0; every update, whatever user id it names, lands in it, and
\* every choose, whatever user id it names, scores from it.
C8_SinSharesOneStatBlock ==
    is_sin =>
        /\ DOMAIN user_information \subseteq {0}
        /\ numUpdates > 0 =>
              /\ 0 \in DOMAIN user_information
              /\ fed[0].k = numUpdates
              /\ user_information[0].b = fed[0].px
        /\ call.op = "choose" =>
              /\ 0 \in DOMAIN user_information
              /\ raised = "none"
              /\ \A Minv \in {np_linalg_inv(user_information[0].M)} :
                    returned = choose_return(call.contexts,
                                   choose_loop(scores_of(Minv, user_information[0].b, alpha,
                                                         call.contexts, call.timestep),
                                               0, -1, NegInf)).value

\* both users have called, updates have been fed, and a choose for user 1 has
\* just read the shared block
C8_Witness ==
    /\ is_sin
    /\ referenced = {0, 1}
    /\ numUpdates >= 2
    /\ DOMAIN user_information = {0}
    /\ user_information[0].b # np_zeros(d)
    /\ call.op = "choose"
    /\ call.user_id = 1

\* one step of an agent without the sin flag, as C9 describes it
C9_Step ==
    ~is_sin =>
        /\ \A e \in DOMAIN user_information :
              /\ e \in DOMAIN user_information'
              /\ (call'.op # "update" \/ call'.user_id # e)
                    => user_information'[e] = user_information[e]
        /\ \A e \in (DOMAIN user_information') \ (DOMAIN user_information) :
              /\ e = call'.user_id
              /\ call'.op = "choose" => user_information'[e] = MatrixBias_init(d)
              /\ call'.op = "update" =>
                    user_information'[e] =
                        MatrixBias_update(MatrixBias_init(d), call'.payoff, call'.context)

\* C9: without the sin flag, the MatrixBias of entity e is changed only by
\* update calls for e (an update for another entity and any choose leave it
\* as it is); a MatrixBias exists only for entities passed to choose or
\* update, starts at M = identity, b = zero, and is never removed.
C9_OnlyOwnUpdateMutates ==
    /\ [](~is_sin => DOMAIN user_information \subseteq referenced)
    /\ [][C9_Step]_vars

\* entity 0 has learnt something, and the last call was an update for entity 1
C9_Witness ==
    /\ ~is_sin
    /\ DOMAIN user_information = {0, 1}
    /\ user_information[0].b # np_zeros(d)
    /\ call.op = "update"
    /\ call.user_id = 1
    /\ call.payoff = 1

IsSymmetric(A) == \A i, j \in 1..Len(A) : A[i][j] = A[j][i]

\* Sylvester's criterion: every leading principal minor is positive
IsPositiveDefinite(A) ==
    \A k \in 1..Len(A) : DetSub(A, Indices(k), Indices(k)) > 0

\* C10: the matrix M of every MatrixBias is symmetric and positive-definite in
\* every reachable state, and no choose fails on a singular M.
C10_MSymmetricPositiveDefinite ==
    /\ \A u \in DOMAIN user_information :
          /\ IsSymmetric(user_information[u].M)
          /\ IsPositiveDefinite(user_information[u].M)
    /\ raised # "LinAlgError"

\* a choose has inverted a matrix that updates have moved off the identity
C10_Witness ==
    /\ call.op = "choose"
    /\ raised = "none"
    /\ numUpdates >= 2
    /\ LET uid == choose_user_id(is_sin, call.user_id)
       IN  /\ uid \in DOMAIN user_information
           /\ fed[uid].k >= 2
           /\ user_information[uid].M # np_identity(d)

(* ------------------------ MacroAgent and load_agent -------------------- *)
Nodes == 0 .. (NumNodes - 1)

\* adjacency matrices as load_graph and generate_cliques build them; graph[i][j]
\* of the source is graph[i + 1][j + 1]
Graphs == [1..NumNodes -> [1..NumNodes -> {0, 1}]]

Range(f) == {f[x] : x \in DOMAIN f}

RECURSIVE AscendingList(_)
\* the members of a set of integers as a list in ascending order
AscendingList(S) ==
    IF S = {} THEN <<>>
    ELSE LET m == CHOOSE x \in S : \A y \in S : x <= y
         IN  <<m>> \o AscendingList(S \ {m})

\* load_clusters, lines 239-243: cluster_to_idx inverts idx_to_cluster, the
\* members of a cluster in file order
load_clusters_cluster_to_idx(i2c) ==
    [c \in Range(i2c) |-> AscendingList({idx \in DOMAIN i2c : i2c[idx] = c})]

\* partitions of the nodes into clusters numbered 0 .. k-1, as a partition file
\* lists them
Partitions ==
    {m \in [Nodes -> 0 .. (MaxClusters - 1)] : Range(m) = 0 .. (Cardinality(Range(m)) - 1)}

\* the cluster_data a caller passes: None, or the pair load_clusters returns
ClusterDatas ==
    {NoClusterData} \cup
    {[none |-> FALSE, cluster_to_idx |-> load_clusters_cluster_to_idx(m),
      idx_to_cluster |-> m] : m \in Partitions}

\* GOBLinAgent(graph, num_users, vector_size, alpha): the constructor's
\* arguments and no observation yet
GOBLinAgent_init(graph, num_users, vector_size, a) ==
    [built |-> TRUE, graph |-> graph, num_users |-> num_users,
     vector_size |-> vector_size, alpha |-> a, updates |-> << >>,
     received |-> NothingReceived]

\* GOBLinAgent.choose(id, contexts, timestep) returning result
GOBLinAgent_choose(g, id, contexts, timestep, result) ==
    [g EXCEPT !.received = [NothingReceived EXCEPT !.op = "choose", !.id = id,
                              !.contexts = contexts, !.timestep = timestep,
                              !.result = result]]

\* GOBLinAgent.update(payoff, context, id): one more observation for id
GOBLinAgent_update(g, payoff, context, id) ==
    [g EXCEPT !.updates = [k \in DOMAIN g.updates \cup {id} |->
                              IF k = id
                              THEN (IF id \in DOMAIN g.updates THEN g.updates[id] ELSE 0) + 1
                              ELSE g.updates[k]],
              !.received = [NothingReceived EXCEPT !.op = "update", !.id = id,
                              !.payoff = payoff, !.context = context]]

\* np.zeros((n, n))
np_zeros_2d(n) == [i \in 1..n |-> [j \in 1..n |-> 0]]

RECURSIVE clustered_graph_counts_all_edges(_, _, _, _, _)
clustered_graph_counts_all_edges(graph, num_users, i2c, clustered_graph, k) ==
    IF k >= num_users * num_users THEN clustered_graph
    ELSE LET i == k \div num_users
             j == k % num_users
             first_cluster == i2c[i]
             second_cluster == i2c[j]
         IN  clustered_graph_counts_all_edges(graph, num_users, i2c,
                 IF graph[i + 1][j + 1] # 0
                 THEN [clustered_graph EXCEPT ![first_cluster + 1][second_cluster + 1] = @ + 1]
                 ELSE clustered_graph,
                 k + 1)

RECURSIVE clustered_graph_loop(_, _, _, _, _)
\* MacroAgent.__init__, lines 23-29: the double loop from its k-th iteration
\* on, i = k div num_users, j = k mod num_users
clustered_graph_loop(graph, num_users, i2c, clustered_graph, k) ==
    IF k >= num_users * num_users THEN clustered_graph
    ELSE LET i == k \div num_users
             j == k % num_users
             first_cluster == i2c[i]
             second_cluster == i2c[j]
         IN  clustered_graph_loop(graph, num_users, i2c,
                 IF graph[i + 1][j + 1] # 0 /\ first_cluster # second_cluster
                 THEN [clustered_graph EXCEPT ![first_cluster + 1][second_cluster + 1] = @ + 1]
                 ELSE clustered_graph,
                 k + 1)

\* a construction that failed with exception e
Failed(e) == [raised |-> e, cluster_to_idx |-> << >>, idx_to_cluster |-> << >>,
              goblin_agent |-> NoGoblin]

MacroAgent_init_defaults_to_one_cluster(graph, num_users, cluster_data, vector_size, a) ==
    LET i2c == IF cluster_data.none THEN [i \in 0 .. (num_users - 1) |-> 0]
               ELSE cluster_data.idx_to_cluster
        c2i == load_clusters_cluster_to_idx(i2c)
        num_clusters == Cardinality(DOMAIN c2i)
    IN  [raised |-> "none", cluster_to_idx |-> c2i, idx_to_cluster |-> i2c,
         goblin_agent |-> GOBLinAgent_init(
             clustered_graph_loop(graph, num_users, i2c, np_zeros_2d(num_clusters), 0),
             num_clusters, vector_size, a)]

\* MacroAgent.__init__
MacroAgent_init(graph, num_users, cluster_data, vector_size, a) ==
    IF cluster_data.none
    THEN Failed("Exception: No cluster data for macro algorithm")
    ELSE LET num_clusters == Cardinality(DOMAIN cluster_data.cluster_to_idx)
             clustered_graph ==
                 clustered_graph_loop(graph, num_users, cluster_data.idx_to_cluster,
                                      np_zeros_2d(num_clusters), 0)
         IN  [raised |-> "none",
              cluster_to_idx |-> cluster_data.cluster_to_idx,
              idx_to_cluster |-> cluster_data.idx_to_cluster,
              goblin_agent |-> GOBLinAgent_init(clustered_graph, num_clusters, vector_size, a)]

\* the algorithm names of load_agent whose classes are modelled, and a name it
\* does not know
AlgorithmNames == {"linucb", "linucbsin", "macro", "unknown"}

\* the program before load_agent is called
InitMacro ==
    /\ agent = "none"
    /\ is_sin = FALSE
    /\ alpha \in Alphas
    /\ user_information = << >>
    /\ idx_to_cluster = << >>
    /\ cluster_to_idx = << >>
    /\ goblin_agent = NoGoblin
    /\ returned = NoContext
    /\ raised = "none"
    /\ call = NoCall
    /\ referenced = {}
    /\ fed = << >>
    /\ numUpdates = 0

\* load_agent(algorithm_name, num_features, alpha, graph, cluster_data)
load_agent(algorithm_name, num_features, a, graph, cluster_data) ==
    /\ call' = LoadCall(algorithm_name, graph, cluster_data)
    /\ alpha' = a
    /\ IF algorithm_name = "linucb" \/ algorithm_name = "linucbsin"
       THEN /\ agent' = algorithm_name
            /\ is_sin' = (algorithm_name = "linucbsin")
            /\ raised' = "none"
            /\ UNCHANGED <<idx_to_cluster, cluster_to_idx, goblin_agent>>
       ELSE IF algorithm_name = "macro"
       THEN \E made \in {MacroAgent_init(graph, Len(graph), cluster_data, num_features, a)} :
                /\ agent' = IF made.raised = "none" THEN "macro" ELSE "none"
                /\ raised' = made.raised
                /\ idx_to_cluster' = made.idx_to_cluster
                /\ cluster_to_idx' = made.cluster_to_idx
                /\ goblin_agent' = made.goblin_agent
                /\ UNCHANGED is_sin
       ELSE /\ raised' = "Exception: Algorithm not implemented! Try linucb, linucbsin, goblin"
            /\ UNCHANGED <<agent, is_sin, idx_to_cluster, cluster_to_idx, goblin_agent>>
    /\ UNCHANGED <<user_information, returned, referenced, fed, numUpdates>>

LoadAgent ==
    /\ call.op = "none"
    /\ \E algorithm_name \in AlgorithmNames, graph \in Graphs, cluster_data \in ClusterDatas :
          load_agent(algorithm_name, d, alpha, graph, cluster_data)

MacroAgent_choose_cluster_id_is_user_id(i2c, user_id) == user_id

\* MacroAgent.choose, line 34
MacroAgent_choose_cluster_id(i2c, user_id) == i2c[user_id]

\* MacroAgent.update, line 38
MacroAgent_update_cluster_id(i2c, user_id) == i2c[user_id]

\* MacroAgent.choose; result is what the internal agent's choose returns
MacroAgent_choose(user_id, contexts, timestep, result) ==
    LET cluster_id == MacroAgent_choose_cluster_id(idx_to_cluster, user_id)
    IN  /\ goblin_agent' = GOBLinAgent_choose(goblin_agent, cluster_id, contexts, timestep,
                                              result)
        /\ returned' = goblin_agent'.received.result
        /\ raised' = "none"
        /\ call' = ChooseCall(user_id, contexts, timestep)
        /\ UNCHANGED <<agent, is_sin, alpha, user_information, idx_to_cluster,
                       cluster_to_idx, referenced, fed, numUpdates>>

\* MacroAgent.update
MacroAgent_update(payoff, context, user_id) ==
    LET cluster_id == MacroAgent_update_cluster_id(idx_to_cluster, user_id)
    IN  /\ numUpdates < MaxUpdates
        /\ goblin_agent' = GOBLinAgent_update(goblin_agent, payoff, context, cluster_id)
        /\ raised' = "none"
        /\ call' = UpdateCall(payoff, context, user_id)
        /\ numUpdates' = numUpdates + 1
        /\ UNCHANGED <<agent, is_sin, alpha, user_information, idx_to_cluster,
                       cluster_to_idx, returned, referenced, fed>>

\* the internal agent returns one of the candidates; which one is its own affair
MacroChoose ==
    /\ agent = "macro"
    /\ \E user_id \in Nodes, contexts \in CandidateLists, timestep \in Timesteps :
          \E result \in Elements(contexts) :
              MacroAgent_choose(user_id, contexts, timestep, result)

MacroUpdate ==
    /\ agent = "macro"
    /\ \E payoff \in Payoffs, context \in ContextPool, user_id \in Nodes :
          MacroAgent_update(payoff, context, user_id)

NextMacro == LoadAgent \/ MacroChoose \/ MacroUpdate

SpecMacro == InitMacro /\ [][NextMacro]_vars

(* --------------------- properties of the Macro agent ------------------- *)
\* the ordered pairs (i, j) of entities with a nonzero adjacency entry, i in
\* cluster p and j in cluster q
EdgesBetween(graph, i2c, p, q) ==
    {ij \in (0 .. (Len(graph) - 1)) \X (0 .. (Len(graph) - 1)) :
        /\ graph[ij[1] + 1][ij[2] + 1] # 0
        /\ i2c[ij[1]] = p
        /\ i2c[ij[2]] = q}

\* C5: the clustered graph MacroAgent builds has, at (p, q) with p # q, the
\* number of ordered entity pairs (i, j) with graph[i][j] nonzero, i in cluster
\* p and j in cluster q, and 0 on its diagonal: intra-cluster edges add nothing.
C5_ClusteredGraphCountsCrossEdges ==
    (agent = "macro" /\ call.op = "load_agent") =>
        LET ids == DOMAIN cluster_to_idx
            cg == goblin_agent.graph
        IN  /\ Len(cg) = Cardinality(ids)
            /\ \A p, q \in ids :
                  cg[p + 1][q + 1] =
                      IF p = q THEN 0
                      ELSE Cardinality(EdgesBetween(call.graph, idx_to_cluster, p, q))

\* a construction over two clusters where some cell counts two edges and some
\* edge joins two different entities of one cluster
C5_Witness ==
    /\ agent = "macro"
    /\ call.op = "load_agent"
    /\ \E p, q \in DOMAIN cluster_to_idx : p # q /\ goblin_agent.graph[p + 1][q + 1] >= 2
    /\ \E i, j \in DOMAIN idx_to_cluster :
          /\ i # j
          /\ idx_to_cluster[i] = idx_to_cluster[j]
          /\ call.graph[i + 1][j + 1] # 0

\* C6: load_agent("macro", ...) with cluster_data = None fails with an error:
\* no agent is returned and no internal graph-regularized agent is created.
C6_NoClusterDataFailsConstruction ==
    ( /\ call.op = "load_agent"
      /\ call.algorithm_name = "macro"
      /\ call.cluster_data.none )
    => /\ raised # "none"
       /\ agent = "none"
       /\ ~goblin_agent.built

\* the failed construction, over a graph that has an edge
C6_Witness ==
    /\ call.op = "load_agent"
    /\ call.algorithm_name = "macro"
    /\ call.cluster_data.none
    /\ \E i, j \in 1..Len(call.graph) : call.graph[i][j] # 0
    /\ raised = "Exception: No cluster data for macro algorithm"

\* what the internal agent received is the caller's call with the cluster id
\* in place of the entity id
C7_Delegated ==
    (agent = "macro" /\ call.op \in {"choose", "update"}) =>
        /\ goblin_agent.received.op = call.op
        /\ goblin_agent.received.id = idx_to_cluster[call.user_id]
        /\ goblin_agent.received.contexts = call.contexts
        /\ goblin_agent.received.timestep = call.timestep
        /\ goblin_agent.received.payoff = call.payoff
        /\ goblin_agent.received.context = call.context
        /\ call.op = "choose" => returned = goblin_agent.received.result

\* a step of the Macro agent for entity A leaves the internal agent in the
\* state the same call for any entity B of A's cluster leaves it in
C7_Step ==
    (agent = "macro" /\ agent' = "macro") =>
        \A B \in DOMAIN idx_to_cluster :
            idx_to_cluster[B] = idx_to_cluster[call'.user_id] =>
                /\ numUpdates' # numUpdates =>
                      goblin_agent' = GOBLinAgent_update(goblin_agent, call'.payoff,
                                                         call'.context, idx_to_cluster[B])
                /\ numUpdates' = numUpdates =>
                      goblin_agent' = GOBLinAgent_choose(goblin_agent, idx_to_cluster[B],
                                                         call'.contexts, call'.timestep,
                                                         returned')

\* C7: every choose and update of MacroAgent reaches the internal agent with
\* the caller's cluster id in place of the entity id and the other arguments
\* unchanged, and choose returns the internal agent's result; so entities of
\* one cluster are interchangeable in any call.
C7_ClusterSharesOneIdentity == []C7_Delegated /\ [][C7_Step]_vars

\* an update through an entity whose id differs from its cluster's id, in a
\* cluster that has another member and has been updated before
C7_Witness ==
    /\ agent = "macro"
    /\ call.op = "update"
    /\ idx_to_cluster[call.user_id] # call.user_id
    /\ \E B \in DOMAIN idx_to_cluster :
          B # call.user_id /\ idx_to_cluster[B] = idx_to_cluster[call.user_id]
    /\ goblin_agent.updates[idx_to_cluster[call.user_id]] >= 2

====
